---- MODULE Spec2Model ----
(***************************************************************************)
(* MS365 calendar: the sync coordinator (coordinator_integration.py) and   *)
(* the calendar entity (calendar_integration.py) as a state machine.       *)
(*                                                                         *)
(* Time is counted in hours; an instant is an integer (UTC).  Python       *)
(* compares aware datetimes by instant, so an aware datetime is modelled   *)
(* by its instant.  An optional value (None or x) is the sequence <<>> or  *)
(* <<x>>.                                                                  *)
(***************************************************************************)
EXTENDS Integers, Sequences, FiniteSets, TLC

VARIABLES
    now,                \* the wall clock (dt_util.utcnow / dt_util.now / datetime.now)
    remote,             \* the identifiers of the events the remote calendar holds
    patched,            \* the identifiers of the remote events that have been patched
    store,              \* the identifiers of the events in the scope's store
    data,               \* coordinator.data: the cached timeline, <<>> (None) before the first success
    upcoming_timeline,  \* coordinator._upcoming_timeline
    ever_synced,        \* history: some cycle has completed successfully
    timer,              \* the poll timer of the coordinator is armed
    pc,                 \* where the poll tick, the entity update and the initial refresh stand
    svc,                \* the mutating call in progress, if any
    entity_event,       \* entity._event
    data_attribute,     \* entity._data_attribute
    update_supported,   \* entity._update_supported
    group_calendar,     \* api.group_calendar
    exclude,            \* entity.exclude: the exclusion patterns of the entity
    setup,              \* the configured entities, and what _async_setup_coordinators made of them
    ret                 \* what the last completed call returned or raised

vars ==
    <<now, remote, patched, store, data, upcoming_timeline, ever_synced, timer, pc, svc,
      entity_event, data_attribute, update_supported, group_calendar, exclude, setup,
      ret>>

coordVars == <<remote, patched, store, data, upcoming_timeline, ever_synced, timer>>
entityVars ==
    <<entity_event, data_attribute, update_supported, group_calendar, exclude, setup>>

----------------------------------------------------------------------------
(* Bounds of the model *)

\* The clock runs from 0 to MaxNow
MaxNow == 1
\* The events of a timeline drawn at random
MaxTimeline == 3
\* The events of a timeline the entity's event list is drawn from
MaxBatch == 2
\* The entities of the calendars file
MaxEntities == 2
\* The events the remote calendar can hold in the runs of the whole machine
MaxEvents == 1
\* The occurrences of the recurring series
MaxOccurrences == 2
\* The exclusion patterns of an entity
MaxPatterns == 2

(* Program constants, in hours *)

\* timedelta(days=1) in get_current_event
OneDay == 24
\* The local zone of dt_util.start_of_local_day: hours ahead of UTC
LocalUtcOffset == 1
\* timedelta(days=DEFAULT_SYNC_EVENT_MIN_TIME): 15 days back
SyncEventMinTime == -360
\* timedelta(days=DEFAULT_SYNC_EVENT_MAX_TIME): 90 days forward
SyncEventMaxTime == 2160
\* entity.get(CONF_HOURS_BACKWARD_TO_GET), entity.get(CONF_HOURS_FORWARD_TO_GET)
StartOffset == 0
EndOffset == 24

----------------------------------------------------------------------------
(* Values *)

NoneV == <<>>
Some(x) == <<x>>

\* entity.get(CONF_EXCLUDE) of an entity configured without exclusions
NoExclude == <<>>

\* The setup before _async_setup_coordinators has run, with no entity
\* configured: the entities of the calendars file, whether each calendar can
\* be edited, the two lists the setup returns, and what the scopes of the
\* shared LocalCalendarStore hold
NoSetup ==
    [entities |-> <<>>, can_edit |-> <<>>, done |-> FALSE, coordinators |-> <<>>,
     keys |-> <<>>, local_store |-> {}, enable_update |-> TRUE,
     token |-> "Calendars.ReadWrite", platform_done |-> FALSE, added |-> <<>>,
     services |-> FALSE]

\* The instants events start and end at
Grid == {0, 1, 24}

\* What an event can look like, apart from its identifier: start <= end, and
\* an all-day event is not empty
EventShapes ==
    {sh \in [start : Grid, end : Grid, is_all_day : BOOLEAN] :
        sh.start <= sh.end /\ (sh.is_all_day => sh.start < sh.end)}

\* O365 Event: identifier, start, end, all-day flag, subject, whether its
\* location holds a displayName, whether CalendarEvent's validation accepts
\* its dates, the attribute start_sort, which an event has only once
\* _sort_events has set it, the series it is an occurrence of, if any, and its
\* last-modified stamp
MkEvent(i, sh) ==
    [object_id |-> i, start |-> sh.start, end |-> sh.end, is_all_day |-> sh.is_all_day,
     subject |-> "Lunch", location |-> "named", valid |-> TRUE, start_sort |-> NoneV,
     series_master_id |-> NoneV, stamp |-> 0]

\* Every timeline of at most n events; the identifier of an event is unique
\* within the timeline
TimelinesUpTo(n) ==
    UNION {{[i \in 1..k |-> MkEvent(i, f[i])] : f \in [1..k -> EventShapes]} :
              k \in 0..n}

\* The events of the remote calendar in the runs of the whole machine
MainIds == 1..MaxEvents

\* They are the occurrences of one recurring series, the series 0
MainEvent(i) ==
    [(IF i = 1 THEN MkEvent(1, [start |-> 0, end |-> 1, is_all_day |-> FALSE])
      ELSE MkEvent(i, [start |-> 1, end |-> 25, is_all_day |-> FALSE]))
        EXCEPT !.series_master_id = Some(0)]

----------------------------------------------------------------------------
(* MS365Timeline *)

\* A timeline object is always truthy; only None is falsy
Truthy(opt) == opt # NoneV

\* overlapping(a, b): the events whose [start, end) meets [a, b), in the
\* timeline's order
overlapping(tl, a, b) ==
    SelectSeq(tl, LAMBDA e : e.start < b /\ e.end > a)

\* store_service.async_get_timeline: a new timeline value built from the
\* events of the store, in the order of their identifiers
RECURSIVE async_get_timeline(_)
async_get_timeline(ids) ==
    IF ids = {} THEN <<>>
    ELSE LET m == CHOOSE i \in ids : \A j \in ids : i <= j
         IN  <<MainEvent(m)>> \o async_get_timeline(ids \ {m})

\* The events as sync.run has merged them: an event the remote calendar has
\* patched carries the newer stamp
Stamped(tl, p) ==
    [i \in 1..Len(tl) |-> [tl[i] EXCEPT !.stamp = IF tl[i].object_id \in p THEN 1 ELSE 0]]

----------------------------------------------------------------------------
(* MS365CalendarSyncCoordinator: the current event *)

get_start_date(vevent) == vevent.start
get_end_date(vevent) == vevent.end

\* as_utc of an aware datetime: the same instant
to_datetime(obj) == obj

\* The comparison taking an event that starts at this very instant for not
\* started
is_started_Strict(t, vevent) == t > to_datetime(get_start_date(vevent))

is_started(t, vevent) == t >= to_datetime(get_start_date(vevent))
is_finished(t, vevent) == t >= to_datetime(get_end_date(vevent))

\* The loop of get_current_event over the candidates: b holds the three
\* buckets so far
RECURSIVE ClassifyLoop(_, _, _)
ClassifyLoop(events, t, b) ==
    IF events = <<>> THEN b
    ELSE LET event == Head(events)
             rest == Tail(events)
         IN  IF event.is_all_day
             THEN IF b.all_day_event = NoneV /\ ~is_finished(t, event)
                  THEN ClassifyLoop(rest, t, [b EXCEPT !.all_day_event = Some(event)])
                  ELSE ClassifyLoop(rest, t, b)
             ELSE IF is_started(t, event) /\ ~is_finished(t, event)
             THEN IF b.started_event = NoneV
                  THEN ClassifyLoop(rest, t, [b EXCEPT !.started_event = Some(event)])
                  ELSE ClassifyLoop(rest, t, b)
             ELSE IF ~is_finished(t, event) /\ ~event.is_all_day
                     /\ b.not_started_event = NoneV
             THEN ClassifyLoop(rest, t, [b EXCEPT !.not_started_event = Some(event)])
             ELSE ClassifyLoop(rest, t, b)

EmptyBuckets ==
    [started_event |-> NoneV, not_started_event |-> NoneV, all_day_event |-> NoneV]

\* The selection with the not-started bucket consulted before the all-day one
SelectVevent_NotStartedFirst(b) ==
    IF b.started_event # NoneV THEN b.started_event
    ELSE IF b.not_started_event # NoneV THEN b.not_started_event
    ELSE IF b.all_day_event # NoneV THEN b.all_day_event
    ELSE NoneV

\* The final selection of get_current_event
SelectVevent(b) ==
    IF b.started_event # NoneV THEN b.started_event
    ELSE IF b.all_day_event # NoneV THEN b.all_day_event
    ELSE IF b.not_started_event # NoneV THEN b.not_started_event
    ELSE NoneV

\* get_current_event at instant t on the cached timeline d (an option)
get_current_event(d, t) ==
    IF ~Truthy(d) THEN NoneV
    ELSE SelectVevent(ClassifyLoop(overlapping(d[1], t, t + OneDay), t, EmptyBuckets))

----------------------------------------------------------------------------
(* MS365CalendarSyncCoordinator: range queries *)

\* The guard taking a timeline without events for no timeline
NotReady_EmptyTimeline(d) == d = NoneV \/ d[1] = <<>>

\* async_get_events: "if not self.data"
NotReady(d) == ~Truthy(d)

\* The test with its first comparison turned around
OutsideSync_Flipped(start_date, end_date, sync_start_time, sync_end_time) ==
    end_date > sync_start_time \/ start_date > sync_end_time

\* async_get_events: the request is for outside of the synced data
OutsideSync(start_date, end_date, sync_start_time, sync_end_time) ==
    end_date < sync_start_time \/ start_date > sync_end_time

\* coordinator.async_get_events(start_date, end_date) at instant t; fetch_ok
\* is whether sync.async_list_events succeeds, listed what it returns
coord_async_get_events(d, t, start_date, end_date, fetch_ok, listed) ==
    IF NotReady(d)
    THEN [outcome |-> "not_ready", route |-> "none", fetches |-> 0, events |-> <<>>]
    ELSE IF OutsideSync(start_date, end_date, t + SyncEventMinTime, t + SyncEventMaxTime)
    THEN IF fetch_ok
         THEN [outcome |-> "ok", route |-> "uncached", fetches |-> 1, events |-> listed]
         ELSE [outcome |-> "error", route |-> "uncached", fetches |-> 1, events |-> <<>>]
    ELSE [outcome |-> "ok", route |-> "cache", fetches |-> 0,
          events |-> overlapping(d[1], start_date, end_date)]

\* An event the remote calendar holds beyond the synchronized window; no
\* cycle brings it into the store
FarEvent == MkEvent(99, [start |-> 2190, end |-> 2250, is_all_day |-> FALSE])

\* sync.async_list_events(start, end): the remote events of the range
async_list_events(start_date, end_date) ==
    overlapping(Stamped(async_get_timeline(remote), patched) \o <<FarEvent>>,
                start_date, end_date)

----------------------------------------------------------------------------
(* The clock, and the calls that complete in one step *)

NoRet == [op |-> "none", cycle |-> "none"]

Tick ==
    /\ now < MaxNow
    /\ now' = now + 1
    /\ UNCHANGED <<coordVars, pc, svc, entityVars, ret>>

GetCurrentEvent ==
    /\ ret' = [op |-> "get_current_event", cycle |-> "none", at |-> now, tl |-> data,
               vevent |-> get_current_event(data, now)]
    /\ UNCHANGED <<now, coordVars, pc, svc, entityVars>>

\* The query that keeps what it fetched as the cached timeline
CoordGetEvents_CachesFetch(start_date, end_date) ==
    /\ \E fetch_ok \in BOOLEAN :
          LET res == coord_async_get_events(data, now, start_date, end_date, fetch_ok,
                                            async_list_events(start_date, end_date))
          IN  /\ ret' = [op |-> "async_get_events", cycle |-> "none", at |-> now,
                         synced |-> ever_synced, start |-> start_date, end |-> end_date,
                         res |-> res]
              /\ data' = IF res.route = "uncached" /\ res.outcome = "ok"
                         THEN Some(res.events) ELSE data
    /\ UNCHANGED <<now, remote, patched, store, upcoming_timeline, ever_synced, timer, pc, svc,
                   entityVars>>

CoordGetEvents(start_date, end_date) ==
    /\ \E fetch_ok \in BOOLEAN :
          ret' = [op |-> "async_get_events", cycle |-> "none", at |-> now,
                  synced |-> ever_synced, start |-> start_date, end |-> end_date,
                  res |-> coord_async_get_events(data, now, start_date, end_date, fetch_ok,
                                                 async_list_events(start_date, end_date))]
    /\ UNCHANGED <<now, coordVars, pc, svc, entityVars>>

----------------------------------------------------------------------------
(* The refresh cycle: DataUpdateCoordinator.async_refresh around            *)
(* _async_update_data.  A cycle starts when a caller awaits async_refresh   *)
(* (sync.run is then under way) and ends when sync.run has succeeded or     *)
(* failed; async_refresh itself never raises.  Nothing in the coordinator   *)
(* or its callers keeps a second cycle from starting meanwhile.             *)

Callers == {"poll", "update", "initial"}

InFlight(c) == pc[c] = "refreshing"

\* The cycles in flight: the executions of sync.run that have started and
\* not ended
Cycles == Cardinality({c \in Callers : InFlight(c)}) + (IF svc.pc = "refreshing" THEN 1 ELSE 0)

\* The exceptions sync.run ends with when it fails, and its outcomes
RunErrors == {"HTTPError", "TimeoutError"}
RunOutcomes == {"ok"} \cup RunErrors
\* The outcomes drawn where the kind of the failure makes no difference
OkOrHTTPError == {"ok", "HTTPError"}

\* An UpdateFailed that does not say what caused it
UpdateFailed_NoCause(err) == [type |-> "UpdateFailed", cause |-> "none"]

\* raise UpdateFailed(f"Error communicating with API: {err}") from err
UpdateFailed(err) == [type |-> "UpdateFailed", cause |-> err]

\* _async_update_data around sync.run: how sync.run ended and what
\* _async_update_data raised to async_refresh, which logs it
async_update_data(run) ==
    [run |-> run, raised |-> IF run = "ok" THEN NoneV ELSE Some(UpdateFailed(run))]

\* A cycle whose failure drops the cached timeline
FinishRefresh_ClearOnFailure(ok, new_store) ==
    IF ok
    THEN /\ store' = new_store
         /\ upcoming_timeline' = Some(Stamped(async_get_timeline(new_store), patched))
         /\ data' = upcoming_timeline'
         /\ ever_synced' = TRUE
         /\ timer' = TRUE
    ELSE /\ data' = NoneV
         /\ upcoming_timeline' = NoneV
         /\ timer' = TRUE
         /\ UNCHANGED <<store, ever_synced>>

\* A cycle whose failure leaves the poll timer stopped
FinishRefresh_StopOnFailure(ok, new_store) ==
    IF ok
    THEN /\ store' = new_store
         /\ upcoming_timeline' = Some(Stamped(async_get_timeline(new_store), patched))
         /\ data' = upcoming_timeline'
         /\ ever_synced' = TRUE
         /\ timer' = TRUE
    ELSE UNCHANGED <<store, data, upcoming_timeline, ever_synced, timer>>

\* The end of _async_update_data and of the async_refresh around it: sync.run
\* has ended; ok is whether it succeeded.  The timeline is read anew from the
\* store and the poll timer is armed again
FinishRefresh(ok, new_store) ==
    IF ok
    THEN /\ store' = new_store
         /\ upcoming_timeline' = Some(Stamped(async_get_timeline(new_store), patched))
         /\ data' = upcoming_timeline'
         /\ ever_synced' = TRUE
         /\ timer' = TRUE
    ELSE /\ timer' = TRUE
         /\ UNCHANGED <<store, data, upcoming_timeline, ever_synced>>

\* The start of async_refresh: the poll timer is stopped, sync.run is under way
StartRefresh ==
    /\ timer' = FALSE
    /\ UNCHANGED <<remote, patched, store, data, upcoming_timeline, ever_synced>>

\* The poll tick of the coordinator (update_interval)
PollStart ==
    /\ timer
    /\ pc["poll"] = "idle"
    /\ pc' = [pc EXCEPT !["poll"] = "refreshing"]
    /\ StartRefresh
    /\ UNCHANGED <<now, svc, entityVars, ret>>

PollDone(run) ==
    /\ InFlight("poll")
    /\ FinishRefresh(run = "ok", remote)
    /\ ret' = [op |-> "refresh", cycle |-> IF run = "ok" THEN "success" ELSE "failed"]
                  @@ async_update_data(run)
    /\ pc' = [pc EXCEPT !["poll"] = "idle"]
    /\ UNCHANGED <<now, remote, patched, svc, entityVars>>

\* async_added_to_hass: the background task running async_request_refresh
InitialStart ==
    /\ pc["initial"] = "pending"
    /\ pc' = [pc EXCEPT !["initial"] = "refreshing"]
    /\ StartRefresh
    /\ UNCHANGED <<now, svc, entityVars, ret>>

InitialDone(run) ==
    /\ InFlight("initial")
    /\ FinishRefresh(run = "ok", remote)
    /\ ret' = [op |-> "refresh", cycle |-> IF run = "ok" THEN "success" ELSE "failed"]
                  @@ async_update_data(run)
    /\ pc' = [pc EXCEPT !["initial"] = "done"]
    /\ UNCHANGED <<now, remote, patched, svc, entityVars>>

----------------------------------------------------------------------------
(* MS365CalendarEntity.async_update *)

\* _create_calendar_event_entity: the CalendarEvent of an event
create_calendar_event_entity(vevent) ==
    [uid |-> vevent.object_id, start |-> vevent.start, end |-> get_end_date(vevent),
     summary |-> vevent.subject, all_day |-> vevent.is_all_day,
     recurrence_id |-> vevent.series_master_id]

\* What _create_calendar_event_entity does on an event: vevent.location
\* ["displayName"] raises KeyError while the arguments are evaluated, then
\* CalendarEvent's validation raises HomeAssistantError
ConvertOutcome(vevent) ==
    IF vevent.location = "missing" THEN "KeyError"
    ELSE IF ~vevent.valid THEN "HomeAssistantError"
    ELSE "ok"

\* format_event_data: an entry of the data attribute
format_event_data(event) == [uid |-> event.object_id, summary |-> event.subject]

\* The range test taking both ends of the range in
build_extra_attributes_Closed(d, old, range_start, range_end) ==
    IF d # NoneV
    THEN LET sel == SelectSeq(d[1], LAMBDA e : e.end >= range_start /\ e.start <= range_end)
         IN  [i \in 1..Len(sel) |-> format_event_data(sel[i])]
    ELSE old

\* _build_extra_attributes: the entries of the events of the cached timeline
\* within the range; left alone while there is no timeline
build_extra_attributes(d, old, range_start, range_end) ==
    IF d # NoneV
    THEN LET sel == SelectSeq(d[1], LAMBDA e : e.end > range_start /\ e.start < range_end)
         IN  [i \in 1..Len(sel) |-> format_event_data(sel[i])]
    ELSE old

\* _get_current_event: entity._event after it, given what the resolver
\* returned and whether the conversion succeeded
get_current_event_entity(old, vevent, conv_ok) ==
    IF vevent = NoneV THEN old
    ELSE IF conv_ok THEN Some(create_calendar_event_entity(vevent[1]))
    ELSE old

\* async_update up to "await self.coordinator.async_refresh()"
UpdateStart ==
    /\ pc["update"] = "idle"
    /\ data_attribute' = build_extra_attributes(data, data_attribute,
                                                now + StartOffset, now + EndOffset)
    /\ pc' = [pc EXCEPT !["update"] = "refreshing"]
    /\ StartRefresh
    /\ UNCHANGED <<now, svc, entity_event, update_supported, group_calendar, exclude, setup,
                   ret>>

\* async_update from the end of the refresh: _get_current_event.  When the
\* conversion raises HomeAssistantError the handler goes on to
\* deepcopy(event) with event unassigned, which raises UnboundLocalError; any
\* other exception of the conversion leaves _get_current_event as it is
UpdateDone(run) ==
    /\ InFlight("update")
    /\ FinishRefresh(run = "ok", remote)
    /\ LET vevent == get_current_event(data', now)
           conv == IF vevent = NoneV THEN "ok" ELSE ConvertOutcome(vevent[1])
       IN  /\ entity_event' =
                 get_current_event_entity(entity_event, vevent, conv = "ok")
           /\ ret' = [op |-> "async_update",
                      cycle |-> IF run = "ok" THEN "success" ELSE "failed",
                      outcome |-> IF conv = "ok" THEN "ok"
                                  ELSE IF conv = "HomeAssistantError"
                                  THEN "UnboundLocalError"
                                  ELSE conv,
                      found |-> (vevent # NoneV)] @@ async_update_data(run)
    /\ pc' = [pc EXCEPT !["update"] = "idle"]
    /\ UNCHANGED <<now, remote, patched, svc, data_attribute, update_supported, group_calendar,
                   exclude, setup>>

----------------------------------------------------------------------------
(* MS365CalendarEntity.async_get_events *)

\* The subjects of events
Subjects == {"Lunch", "Private Lunch"}

\* re.fullmatch(pattern, subject): the pattern matches the whole subject
re_fullmatch(pattern, subject) ==
    \/ pattern = "Private.*" /\ subject = "Private Lunch"
    \/ pattern = "Lunch" /\ subject = "Lunch"
    \/ pattern = "^Lunch" /\ subject = "Lunch"

\* re.search(pattern, subject): the pattern matches somewhere in the subject
re_search(pattern, subject) ==
    \/ pattern = "Private.*" /\ subject = "Private Lunch"
    \/ pattern = "Lunch" /\ subject \in {"Lunch", "Private Lunch"}
    \/ pattern = "^Lunch" /\ subject = "Lunch"

\* _filter_events: the events whose subject no exclusion pattern matches
filter_events(events, excl) ==
    IF events = <<>> \/ excl = <<>> THEN events
    ELSE SelectSeq(events,
                   LAMBDA e : ~\E i \in 1..Len(excl) : re_search(excl[i], e.subject))

\* as_utc(start_of_local_day(t)): midnight, in the local zone, of the date t
\* is written with
start_of_local_day(t) == (t \div OneDay) * OneDay - LocalUtcOffset

\* The sort key of every event is its start
SetStartSort_StartOnly(event) == [event EXCEPT !.start_sort = Some(event.start)]

\* _sort_events, first loop: the attribute start_sort is set on the event
SetStartSort(event) ==
    [event EXCEPT !.start_sort =
        Some(IF event.is_all_day THEN start_of_local_day(event.start) ELSE event.start)]

\* list.sort(key=attrgetter("start_sort")): stable, ascending
RECURSIVE SortByStartSort(_)
SortByStartSort(events) ==
    IF events = <<>> THEN <<>>
    ELSE LET m == CHOOSE i \in 1..Len(events) :
                      \A j \in 1..Len(events) :
                          \/ events[i].start_sort[1] < events[j].start_sort[1]
                          \/ events[i].start_sort[1] = events[j].start_sort[1] /\ i <= j
         IN  <<events[m]>> \o
             SortByStartSort([k \in 1..(Len(events) - 1) |->
                                 IF k < m THEN events[k] ELSE events[k + 1]])

\* _sort_events
sort_events(events) ==
    SortByStartSort([i \in 1..Len(events) |-> SetStartSort(events[i])])

\* _create_calendar_event_entities: an event whose conversion raises
\* HomeAssistantError is left out; any other exception ends the loop and
\* the call
RECURSIVE create_calendar_event_entities(_)
create_calendar_event_entities(results) ==
    IF results = <<>> THEN [outcome |-> "ok", events |-> <<>>]
    ELSE LET conv == ConvertOutcome(Head(results))
             rest == create_calendar_event_entities(Tail(results))
         IN  IF conv = "HomeAssistantError" THEN rest
             ELSE IF conv # "ok" THEN [outcome |-> conv, events |-> <<>>]
             ELSE IF rest.outcome # "ok" THEN rest
             ELSE [outcome |-> "ok",
                   events |-> <<create_calendar_event_entity(Head(results))>> \o rest.events]

\* The timeline after _sort_events has run over the events of ids: the
\* events overlapping() hands out are the objects the timeline holds
TimelineAfterSort(tl, ids) ==
    [i \in 1..Len(tl) |-> IF tl[i].object_id \in ids THEN SetStartSort(tl[i]) ELSE tl[i]]

\* _filter_events on its own
FilterEvents ==
    /\ data # NoneV
    /\ ret' = [op |-> "_filter_events", cycle |-> "none", events |-> data[1],
               excl |-> exclude, result |-> filter_events(data[1], exclude)]
    /\ UNCHANGED <<now, coordVars, pc, svc, entityVars>>

\* entity.async_get_events(hass, start_date, end_date): the query of the
\* coordinator, then filter, sort and conversion
EntityGetEvents(start_date, end_date) ==
    /\ \E fetch_ok \in BOOLEAN :
          LET res == coord_async_get_events(data, now, start_date, end_date, fetch_ok,
                                            async_list_events(start_date, end_date))
              filtered == filter_events(res.events, exclude)
              sorted == sort_events(filtered)
              made == create_calendar_event_entities(sorted)
              ids == {filtered[i].object_id : i \in 1..Len(filtered)}
          IN  /\ ret' = [op |-> "entity_async_get_events", cycle |-> "none", at |-> now,
                         coord |-> res.outcome, route |-> res.route,
                         filtered |-> IF res.outcome = "ok" THEN filtered ELSE <<>>,
                         batch |-> IF res.outcome = "ok" THEN sorted ELSE <<>>,
                         outcome |-> IF res.outcome = "ok" THEN made.outcome
                                     ELSE res.outcome,
                         events |-> IF res.outcome = "ok" THEN made.events ELSE <<>>]
              /\ data' = IF res.outcome = "ok" /\ res.route = "cache"
                         THEN Some(TimelineAfterSort(data[1], ids)) ELSE data
              /\ upcoming_timeline' = data'
    /\ UNCHANGED <<now, remote, patched, store, ever_synced, timer, pc, svc, entityVars>>

----------------------------------------------------------------------------
(* MS365CalendarEntity: the mutating calls *)

\* The mutating entry points of the entity
Entries ==
    {"async_create_event", "async_update_event", "async_delete_event",
     "async_create_calendar_event", "async_modify_calendar_event",
     "async_remove_calendar_event", "async_respond_calendar_event"}

ModifyEntries == {"async_update_event", "async_modify_calendar_event"}
RemoveEntries == {"async_delete_event", "async_remove_calendar_event"}

\* The identifiers of the recurring series (recurrence_id)
SeriesIds == {0}

IdleSvc == [pc |-> "idle"]

\* _validate_permissions: what it raises, or "ok"; auth is what
\* validate_authorization(PERM_CALENDARS_READWRITE) answers
validate_permissions(auth, supported) ==
    IF ~auth THEN "not_authorised_to_event"
    ELSE IF ~supported THEN "calendar_not_editable"
    ELSE "ok"

\* What an entry point does before its first remote call: the error it
\* raises, or "ok"
Precheck(entry, auth) ==
    IF entry = "async_create_event" THEN "ok"
    ELSE IF validate_permissions(auth, update_supported) # "ok"
    THEN validate_permissions(auth, update_supported)
    ELSE IF entry # "async_create_calendar_event" /\ group_calendar
    THEN "ms365_group_calendar_error"
    ELSE "ok"

\* The bus notification of an entry point: _raise_event(event_type, event_id)
EventType(entry, recurrence_range) ==
    IF entry = "async_create_calendar_event" THEN "create_calendar_event"
    ELSE IF entry \in ModifyEntries
    THEN IF recurrence_range THEN "modify_calendar_recurrences" ELSE "modify_calendar_event"
    ELSE IF entry \in RemoveEntries
    THEN IF recurrence_range THEN "remove_calendar_recurrences" ELSE "remove_calendar_event"
    ELSE IF entry = "async_respond_calendar_event" THEN "respond_calendar_event"
    ELSE "none"

\* The notifications an entry point fires once its remote call (and, for a
\* removal, the refresh) has succeeded
Fired(call) ==
    IF call.entry = "async_create_event" THEN <<>>
    ELSE <<[type |-> EventType(call.entry, call.recurrence_range), event_id |-> call.id]>>

\* The result of a mutating call
SvcRet(call, outcome, cycle, remote_calls, refreshes, fired) ==
    [op |-> call.entry, cycle |-> cycle, outcome |-> outcome, id |-> call.id,
     auth |-> call.auth, remote_calls |-> remote_calls, refreshes |-> refreshes,
     fired |-> fired, scheduled |-> (fired # <<>>)]

\* The identifier handed on whatever the recurrence range
TargetId_EventOnly(event_id, recurrence_id, recurrence_range) == event_id

\* async_modify_calendar_event, async_remove_calendar_event: the identifier
\* handed to the remote call is the series' with a recurrence range, the
\* event's without
TargetId(event_id, recurrence_id, recurrence_range) ==
    IF recurrence_range THEN recurrence_id ELSE event_id

\* What a remote patch or delete of id applies to: the event, or every
\* occurrence of the series
Affected(id) ==
    IF id \in SeriesIds
    THEN {i \in remote : MainEvent(i).series_master_id = Some(id)}
    ELSE {id}

\* An entry point from its call to its first await: the permission and group
\* checks, then the remote call is under way.  async_create_event makes no
\* check; async_create_calendar_event makes no group check.  The lookups
\* through self.data of async_create_calendar_event and _async_send_response
\* count as part of their remote call, which may fail.
SvcCall(entry, event_id, recurrence_id, recurrence_range, auth) ==
    /\ svc = IdleSvc
    /\ entry \in {"async_create_event", "async_create_calendar_event"}
          => (event_id \notin remote /\ ~recurrence_range)
    /\ entry = "async_respond_calendar_event" => ~recurrence_range
    /\ LET call == [entry |-> entry, auth |-> auth, recurrence_range |-> recurrence_range,
                    id |-> TargetId(event_id, recurrence_id, recurrence_range)]
       IN  IF Precheck(entry, auth) = "ok"
           THEN /\ svc' = [pc |-> "remote"] @@ call
                /\ UNCHANGED ret
           ELSE /\ svc' = IdleSvc
                /\ ret' = SvcRet(call, Precheck(entry, auth), "none", 0, 0, <<>>)
    /\ UNCHANGED <<now, coordVars, pc, entityVars>>

\* The remote call of the entry point in progress ends: ok is whether it
\* succeeded
SvcRemoteDone(ok) ==
    /\ svc.pc = "remote"
    /\ IF ~ok
       THEN /\ svc' = IdleSvc
            /\ ret' = SvcRet(svc, "error", "none", 1, 0, <<>>)
            /\ UNCHANGED <<remote, patched, store, timer>>
       ELSE IF svc.entry = "async_create_event"
       THEN \* store_service.async_add_event, then async_refresh
            /\ remote' = remote \cup {svc.id}
            /\ patched' = patched \ {svc.id}
            /\ store' = store \cup {svc.id}
            /\ timer' = FALSE
            /\ svc' = [svc EXCEPT !.pc = "refreshing"]
            /\ UNCHANGED ret
       ELSE IF svc.entry \in RemoveEntries
       THEN \* store_service.async_delete_event, then async_refresh
            /\ remote' = remote \ Affected(svc.id)
            /\ patched' = patched \ Affected(svc.id)
            /\ store' = store \ Affected(svc.id)
            /\ timer' = FALSE
            /\ svc' = [svc EXCEPT !.pc = "refreshing"]
            /\ UNCHANGED ret
       ELSE \* event.save, api.async_patch_event, accept_event / decline_event
            /\ remote' = IF svc.entry = "async_create_calendar_event"
                         THEN remote \cup {svc.id} ELSE remote
            /\ patched' = IF svc.entry \in ModifyEntries
                          THEN patched \cup (Affected(svc.id) \cap remote)
                          ELSE patched \ (remote' \ remote)
            /\ svc' = IdleSvc
            /\ ret' = SvcRet(svc, "ok", "none", 1, 0, Fired(svc))
            /\ UNCHANGED <<store, timer>>
    /\ UNCHANGED <<now, data, upcoming_timeline, ever_synced, pc, entityVars>>

\* The refresh after store_service.async_add_event / async_delete_event ends
SvcRefreshDone(run) ==
    /\ svc.pc = "refreshing"
    /\ FinishRefresh(run = "ok", remote)
    /\ svc' = IdleSvc
    /\ ret' = SvcRet(svc, "ok", IF run = "ok" THEN "success" ELSE "failed", 1, 1, Fired(svc))
                  @@ async_update_data(run)
    /\ UNCHANGED <<now, remote, patched, pc, entityVars>>

----------------------------------------------------------------------------
(* _async_setup_coordinators, and the syncs of the coordinators it builds *)

\* The calendars of the account, and the names entities are given
CalIds == {1, 2}
Names == {"Calendar", "Work"}

\* The tokens that hold the minimum read permission
Tokens == {"Calendars.Read", "Calendars.ReadWrite"}

\* permissions.validate_authorization(permission): the token holds the
\* permission or a higher one
validate_authorization(token, permission) ==
    \/ token = permission
    \/ token = "Calendars.ReadWrite" /\ permission = "Calendars.Read"

\* update_supported of async_do_setup and async_integration_setup_entry
UpdateSupported(enable_update, token) ==
    enable_update /\ validate_authorization(token, "Calendars.ReadWrite")

\* can_edit of the calendar in the scanned list, True when it is not there
CanEdit(calendar_edit_list, cal_id) ==
    IF cal_id \in DOMAIN calendar_edit_list THEN calendar_edit_list[cal_id] ELSE TRUE

\* The loop that builds entities of editable calendars only
RECURSIVE async_setup_add_entities_EditableOnly(_, _, _, _)
async_setup_add_entities_EditableOnly(entities, can_edit, k, acc) ==
    IF k > Len(entities) THEN acc
    ELSE LET entity == entities[k]
             update_calendar == update_supported /\ CanEdit(can_edit, entity.cal_id)
             cal == [entity |-> k, cal_id |-> entity.cal_id, name |-> entity.name,
                     update_supported |-> update_calendar]
         IN  IF ~entity.track \/ ~entity.init_ok \/ ~update_calendar
             THEN async_setup_add_entities_EditableOnly(entities, can_edit, k + 1, acc)
             ELSE async_setup_add_entities_EditableOnly(entities, can_edit, k + 1,
                                                       Append(acc, cal))

\* The loop of _async_setup_add_entities over the entities from the k-th on:
\* acc holds the entities added so far.  An untracked entity is passed over,
\* and so is one whose calendar's initialisation raises HTTPError
RECURSIVE async_setup_add_entities(_, _, _, _)
async_setup_add_entities(entities, can_edit, k, acc) ==
    IF k > Len(entities) THEN acc
    ELSE LET entity == entities[k]
             update_calendar == update_supported /\ CanEdit(can_edit, entity.cal_id)
             cal == [entity |-> k, cal_id |-> entity.cal_id, name |-> entity.name,
                     update_supported |-> update_calendar]
         IN  IF ~entity.track \/ ~entity.init_ok
             THEN async_setup_add_entities(entities, can_edit, k + 1, acc)
             ELSE async_setup_add_entities(entities, can_edit, k + 1, Append(acc, cal))

\* async_integration_setup_entry: the entities are added, and the services
\* registered when updates are supported
async_integration_setup_entry ==
    /\ ~setup.platform_done
    /\ setup' = [setup EXCEPT
                    !.platform_done = TRUE,
                    !.added = async_setup_add_entities(setup.entities, setup.can_edit, 1, <<>>),
                    !.services = update_supported]
    /\ ret' = [op |-> "async_integration_setup_entry", cycle |-> "none"]
    /\ UNCHANGED <<now, coordVars, pc, svc, entity_event, data_attribute, update_supported,
                   group_calendar, exclude>>

\* The loop of _async_setup_coordinators over the entities from the k-th on:
\* acc holds the coordinators and keys so far.  The key is appended before
\* the try; an HTTPError of the calendar's initialisation skips the
\* coordinator
RECURSIVE SetupLoop(_, _, _, _)
SetupLoop(entities, can_edit, k, acc) ==
    IF k > Len(entities) THEN acc
    ELSE LET entity == entities[k]
             key == [entity |-> k, entity_id |-> entity.device_id,
                     update_calendar |-> (update_supported /\ CanEdit(can_edit, entity.cal_id))]
             unique_id == entity.name
             coordinator == [name |-> unique_id, cal_id |-> entity.cal_id,
                             scope |-> unique_id, entity |-> k]
         IN  IF ~entity.track THEN SetupLoop(entities, can_edit, k + 1, acc)
             ELSE IF ~entity.init_ok
             THEN SetupLoop(entities, can_edit, k + 1,
                            [acc EXCEPT !.keys = Append(@, key)])
             ELSE SetupLoop(entities, can_edit, k + 1,
                            [acc EXCEPT !.keys = Append(@, key),
                                        !.coordinators = Append(@, coordinator)])

\* _async_setup_coordinators
SetupCoordinators ==
    /\ ~setup.done
    /\ LET made == SetupLoop(setup.entities, setup.can_edit, 1,
                             [coordinators |-> <<>>, keys |-> <<>>])
       IN  /\ setup' = [setup EXCEPT !.done = TRUE, !.coordinators = made.coordinators,
                                     !.keys = made.keys]
           /\ ret' = [op |-> "_async_setup_coordinators", cycle |-> "none"]
    /\ UNCHANGED <<now, coordVars, pc, svc, entity_event, data_attribute, update_supported,
                   group_calendar, exclude>>

\* sync.run() of the i-th coordinator: it reads what its ScopedCalendarStore
\* holds and writes the events of its calendar there
ScopeSync(i) ==
    /\ setup.done
    /\ i \in 1..Len(setup.coordinators)
    /\ LET c == setup.coordinators[i]
           found == {r \in setup.local_store : r.scope = c.scope}
       IN  /\ setup' = [setup EXCEPT !.local_store =
                            (@ \ found) \cup
                            {[scope |-> c.scope, cal_id |-> c.cal_id, coordinator |-> i]}]
           /\ ret' = [op |-> "sync.run", cycle |-> "none", coordinator |-> i,
                      found |-> found]
    /\ UNCHANGED <<now, coordVars, pc, svc, entity_event, data_attribute, update_supported,
                   group_calendar, exclude>>

----------------------------------------------------------------------------
(* The whole machine *)

\* The ranges queried in the runs of the whole machine: inside the
\* synchronized window, and beyond it
Ranges == {<<0, 24>>, <<2200, 2300>>}

\* The entry points whose call ends in a refresh
RefreshingEntries == {"async_create_event", "async_delete_event"}

Init ==
    /\ now = 0
    /\ remote \in SUBSET MainIds
    /\ patched = {}
    /\ store = {}
    /\ data = NoneV
    /\ upcoming_timeline = NoneV
    /\ ever_synced = FALSE
    /\ timer = TRUE
    /\ pc = [c \in Callers |-> IF c = "initial" THEN "pending" ELSE "idle"]
    /\ svc = IdleSvc
    /\ entity_event = NoneV
    /\ data_attribute = <<>>
    /\ update_supported = TRUE
    /\ group_calendar = FALSE
    /\ exclude = NoExclude
    /\ setup = NoSetup
    /\ ret = NoRet

Next ==
    \/ Tick
    \/ UpdateStart
    \/ \E run \in OkOrHTTPError : UpdateDone(run)
    \/ \E entry \in RefreshingEntries, event_id \in MainIds, recurrence_id \in SeriesIds :
          SvcCall(entry, event_id, recurrence_id, FALSE, TRUE)
    \/ \E ok \in BOOLEAN : SvcRemoteDone(ok)
    \/ \E run \in OkOrHTTPError : SvcRefreshDone(run)
    \/ PollStart
    \/ \E run \in OkOrHTTPError : PollDone(run)
    \/ InitialStart
    \/ \E run \in OkOrHTTPError : InitialDone(run)
    \/ \E r \in Ranges : CoordGetEvents(r[1], r[2])

Spec == Init /\ [][Next]_vars

----------------------------------------------------------------------------
(* The mutating calls under every configuration of the entity *)

InitService ==
    /\ now = 0
    /\ remote \in SUBSET MainIds
    /\ patched = {}
    /\ store = remote
    /\ data = Some(async_get_timeline(remote))
    /\ upcoming_timeline = data
    /\ ever_synced = TRUE
    /\ timer = TRUE
    /\ pc = [c \in Callers |-> IF c = "initial" THEN "done" ELSE "idle"]
    /\ svc = IdleSvc
    /\ entity_event = NoneV
    /\ data_attribute = <<>>
    /\ update_supported \in BOOLEAN
    /\ group_calendar \in BOOLEAN
    /\ exclude = NoExclude
    /\ setup = NoSetup
    /\ ret = NoRet

NextService ==
    \/ \E entry \in Entries, event_id \in MainIds, recurrence_id \in SeriesIds,
          recurrence_range \in BOOLEAN, auth \in BOOLEAN :
          SvcCall(entry, event_id, recurrence_id, recurrence_range, auth)
    \/ \E ok \in BOOLEAN : SvcRemoteDone(ok)
    \/ \E run \in OkOrHTTPError : SvcRefreshDone(run)

SpecService == InitService /\ [][NextService]_vars

----------------------------------------------------------------------------
(* The range queries on every cached timeline *)

QueryPoints == {-400, -360, 0, 24, 2160, 2161, 2200}

InitQuery ==
    /\ now \in 0..MaxNow
    /\ data \in {NoneV} \cup {Some(tl) : tl \in TimelinesUpTo(1)}
    /\ upcoming_timeline = data
    /\ ever_synced = (data # NoneV)
    /\ timer = TRUE
    /\ remote \in SUBSET MainIds
    /\ patched = {}
    /\ store = IF data = NoneV THEN {} ELSE remote
    /\ pc = [c \in Callers |-> IF c = "initial" THEN "done" ELSE "idle"]
    /\ svc = IdleSvc
    /\ entity_event = NoneV
    /\ data_attribute = <<>>
    /\ update_supported = TRUE
    /\ group_calendar = FALSE
    /\ exclude = NoExclude
    /\ setup = NoSetup
    /\ ret = NoRet

NextQuery ==
    \/ Tick
    \/ \E start_date \in QueryPoints, end_date \in QueryPoints :
          /\ start_date <= end_date
          /\ CoordGetEvents(start_date, end_date)

SpecQuery == InitQuery /\ [][NextQuery]_vars

----------------------------------------------------------------------------
(* The resolver on every cached timeline *)

InitResolve ==
    /\ now \in 0..MaxNow
    /\ data \in {Some(tl) : tl \in TimelinesUpTo(MaxTimeline)}
    /\ upcoming_timeline = data
    /\ ever_synced = TRUE
    /\ timer = TRUE
    /\ remote = {}
    /\ patched = {}
    /\ store = {}
    /\ pc = [c \in Callers |-> IF c = "initial" THEN "done" ELSE "idle"]
    /\ svc = IdleSvc
    /\ entity_event = NoneV
    /\ data_attribute = <<>>
    /\ update_supported = TRUE
    /\ group_calendar = FALSE
    /\ exclude = NoExclude
    /\ setup = NoSetup
    /\ ret = NoRet

NextResolve ==
    \/ Tick
    \/ GetCurrentEvent

SpecResolve == InitResolve /\ [][NextResolve]_vars

----------------------------------------------------------------------------
(* The entity's event list and its update on every cached timeline *)

\* What an event of a batch looks like: a timed event at 0 or 1, or an
\* all-day event of day 0
BatchTimes ==
    {[start |-> 0, end |-> 1, is_all_day |-> FALSE],
     [start |-> 1, end |-> 2, is_all_day |-> FALSE],
     [start |-> 0, end |-> 24, is_all_day |-> TRUE]}

\* Its subject, its location and whether its dates are valid
BatchKinds ==
    {k \in [subject : Subjects, location : {"named", "missing"}, valid : BOOLEAN] :
        ~k.valid => (k.subject = "Lunch" /\ k.location = "named")}

BatchEvent(i, t, k) ==
    [MkEvent(i, t) EXCEPT !.subject = k.subject, !.location = k.location,
                          !.valid = k.valid]

BatchTimelines ==
    UNION {{[i \in 1..n |-> BatchEvent(i, f[i][1], f[i][2])] :
               f \in [1..n -> BatchTimes \X BatchKinds]} : n \in 0..MaxBatch}

InitEvents ==
    /\ now = 0
    /\ data \in {Some(tl) : tl \in BatchTimelines}
    /\ upcoming_timeline = data
    /\ ever_synced = TRUE
    /\ timer = TRUE
    /\ remote = {}
    /\ patched = {}
    /\ store = {}
    /\ pc = [c \in Callers |-> IF c = "initial" THEN "done" ELSE "idle"]
    /\ svc = IdleSvc
    /\ entity_event = NoneV
    /\ data_attribute = <<>>
    /\ update_supported = TRUE
    /\ group_calendar = FALSE
    /\ exclude \in {NoExclude, <<"Private.*">>}
    /\ setup = NoSetup
    /\ ret = NoRet

NextEvents ==
    \/ \E r \in Ranges : EntityGetEvents(r[1], r[2])
    \/ UpdateStart
    \/ \E run \in OkOrHTTPError : UpdateDone(run)

SpecEvents == InitEvents /\ [][NextEvents]_vars

----------------------------------------------------------------------------
(* The entity's event list under every exclusion list *)

\* The exclusion patterns, and the exclusion lists made of them, without
\* repeated patterns
Patterns == {"Private.*", "Lunch", "^Lunch"}
Excludes ==
    {f \in UNION {[1..n -> Patterns] : n \in 0..MaxPatterns} :
        \A i \in DOMAIN f : \A j \in DOMAIN f : f[i] = f[j] => i = j}

InitList ==
    /\ now = 0
    /\ data \in {Some(tl) : tl \in BatchTimelines}
    /\ upcoming_timeline = data
    /\ ever_synced = TRUE
    /\ timer = TRUE
    /\ remote = {}
    /\ patched = {}
    /\ store = {}
    /\ pc = [c \in Callers |-> IF c = "initial" THEN "done" ELSE "idle"]
    /\ svc = IdleSvc
    /\ entity_event = NoneV
    /\ data_attribute = <<>>
    /\ update_supported = TRUE
    /\ group_calendar = FALSE
    /\ exclude \in Excludes
    /\ setup = NoSetup
    /\ ret = NoRet

NextList ==
    \/ FilterEvents
    \/ \E r \in Ranges : EntityGetEvents(r[1], r[2])

SpecList == InitList /\ [][NextList]_vars

----------------------------------------------------------------------------
(* The range selections on every cached timeline *)

RangePoints == Grid

InitRange ==
    /\ now \in 0..MaxNow
    /\ data \in {Some(tl) : tl \in TimelinesUpTo(MaxTimeline)}
    /\ upcoming_timeline = data
    /\ ever_synced = TRUE
    /\ timer = TRUE
    /\ remote = {}
    /\ patched = {}
    /\ store = {}
    /\ pc = [c \in Callers |-> IF c = "initial" THEN "done" ELSE "idle"]
    /\ svc = IdleSvc
    /\ entity_event = NoneV
    /\ data_attribute = <<>>
    /\ update_supported = TRUE
    /\ group_calendar = FALSE
    /\ exclude = NoExclude
    /\ setup = NoSetup
    /\ ret = NoRet

NextRange ==
    \/ \E start_date \in RangePoints, end_date \in RangePoints :
          /\ start_date <= end_date
          /\ CoordGetEvents(start_date, end_date)
    \/ GetCurrentEvent
    \/ UpdateStart

SpecRange == InitRange /\ [][NextRange]_vars

----------------------------------------------------------------------------
(* The setup on every calendars file *)

\* The entities of a calendars file: the entities of one calendar follow
\* one another, and the device of an entity is its own
EntityConfigs ==
    UNION {{[k \in 1..n |-> [cal_id |-> f[k].cal_id, name |-> f[k].name,
                              track |-> f[k].track, init_ok |-> f[k].init_ok,
                              device_id |-> k]] :
               f \in {g \in [1..n -> [cal_id : CalIds, name : Names, track : BOOLEAN,
                                       init_ok : BOOLEAN]] :
                         \A k \in 1..n : \A l \in 1..n :
                             k <= l => g[k].cal_id <= g[l].cal_id}} :
              n \in 0..MaxEntities}

\* What the scan for calendars found: whether each calendar it lists can be
\* edited
ScannedCalendars == UNION {[D -> BOOLEAN] : D \in SUBSET CalIds}

InitSetup ==
    /\ now = 0
    /\ remote = {}
    /\ patched = {}
    /\ store = {}
    /\ data = NoneV
    /\ upcoming_timeline = NoneV
    /\ ever_synced = FALSE
    /\ timer = TRUE
    /\ pc = [c \in Callers |-> IF c = "initial" THEN "pending" ELSE "idle"]
    /\ svc = IdleSvc
    /\ entity_event = NoneV
    /\ data_attribute = <<>>
    /\ setup \in {[NoSetup EXCEPT !.entities = es, !.can_edit = ce, !.enable_update = eu,
                                   !.token = t] :
                     es \in EntityConfigs, ce \in ScannedCalendars, eu \in BOOLEAN,
                     t \in Tokens}
    /\ update_supported = UpdateSupported(setup.enable_update, setup.token)
    /\ group_calendar = FALSE
    /\ exclude = NoExclude
    /\ ret = NoRet

NextSetup ==
    \/ SetupCoordinators
    \/ async_integration_setup_entry
    \/ \E i \in 1..MaxEntities : ScopeSync(i)

SpecSetup == InitSetup /\ [][NextSetup]_vars

----------------------------------------------------------------------------
(* The calls with a recurrence range on a synced recurring series *)

Occurrences == 1..MaxOccurrences

InitSeries ==
    /\ now = 0
    /\ remote = Occurrences
    /\ patched = {}
    /\ store = remote
    /\ data = Some(async_get_timeline(remote))
    /\ upcoming_timeline = data
    /\ ever_synced = TRUE
    /\ timer = TRUE
    /\ pc = [c \in Callers |-> IF c = "initial" THEN "done" ELSE "idle"]
    /\ svc = IdleSvc
    /\ entity_event = NoneV
    /\ data_attribute = <<>>
    /\ update_supported = TRUE
    /\ group_calendar = FALSE
    /\ exclude = NoExclude
    /\ setup = NoSetup
    /\ ret = NoRet

NextSeries ==
    \/ \E entry \in ModifyEntries \cup RemoveEntries, event_id \in Occurrences,
          recurrence_id \in SeriesIds :
          SvcCall(entry, event_id, recurrence_id, TRUE, TRUE)
    \/ \E ok \in BOOLEAN : SvcRemoteDone(ok)
    \/ \E run \in RunOutcomes : SvcRefreshDone(run)
    \/ UpdateStart
    \/ \E run \in RunOutcomes : UpdateDone(run)
    \/ PollStart
    \/ \E run \in RunOutcomes : PollDone(run)

SpecSeries == InitSeries /\ [][NextSeries]_vars

----------------------------------------------------------------------------
(* The coordinator alone, under fair scheduling: the event loop runs every   *)
(* task that can run, so a poll timer that stays armed fires and a sync.run  *)
(* under way ends (its requests time out)                                    *)

NextCycle ==
    \/ Tick
    \/ PollStart
    \/ \E run \in RunOutcomes : PollDone(run)
    \/ InitialStart
    \/ \E run \in RunOutcomes : InitialDone(run)
    \/ \E r \in Ranges : CoordGetEvents(r[1], r[2])

SpecCycle ==
    /\ Init
    /\ [][NextCycle]_vars
    /\ WF_vars(PollStart)
    /\ WF_vars(\E run \in RunOutcomes : PollDone(run))
    /\ WF_vars(InitialStart)
    /\ WF_vars(\E run \in RunOutcomes : InitialDone(run))

----------------------------------------------------------------------------
(* Properties *)

\* The three buckets of the resolver at instant t
StartedBucket(t, e) == ~e.is_all_day /\ e.start <= t /\ t < e.end
AllDayBucket(t, e) == e.is_all_day /\ t < e.end
NotStartedBucket(t, e) == ~e.is_all_day /\ t < e.start

\* The first element of seq that satisfies P, if any
FirstOf(seq, P(_)) ==
    LET idx == {i \in 1..Len(seq) : P(seq[i])}
    IN  IF idx = {} THEN NoneV
        ELSE Some(seq[CHOOSE i \in idx : \A j \in idx : i <= j])

\* The candidates of the last get_current_event
Candidates == overlapping(ret.tl[1], ret.at, ret.at + OneDay)

\* C1: get_current_event returns the first started candidate if there is one,
\* otherwise the first unfinished all-day candidate, otherwise the first
\* not-started candidate, and no event exactly when the three buckets are
\* empty.
C1_ResolverPriority ==
    (ret.op = "get_current_event" /\ Truthy(ret.tl)) =>
        LET s == FirstOf(Candidates, LAMBDA e : StartedBucket(ret.at, e))
            a == FirstOf(Candidates, LAMBDA e : AllDayBucket(ret.at, e))
            n == FirstOf(Candidates, LAMBDA e : NotStartedBucket(ret.at, e))
        IN  /\ ret.vevent = (IF s # NoneV THEN s ELSE IF a # NoneV THEN a ELSE n)
            /\ (ret.vevent = NoneV) <=> (s = NoneV /\ a = NoneV /\ n = NoneV)

\* A resolution over a not-started, then an all-day, then a started
\* candidate: the started one is returned
C1_Witness ==
    /\ ret.op = "get_current_event"
    /\ Truthy(ret.tl)
    /\ Len(Candidates) = 3
    /\ NotStartedBucket(ret.at, Candidates[1])
    /\ AllDayBucket(ret.at, Candidates[2])
    /\ StartedBucket(ret.at, Candidates[3])
    /\ ret.vevent = Some(Candidates[3])

\* The synchronized window at instant t
WindowStart(t) == t + SyncEventMinTime
WindowEnd(t) == t + SyncEventMaxTime
WithinWindow(r) == WindowStart(r.at) <= r.start /\ r.end <= WindowEnd(r.at)

\* C2: a query on a synced coordinator whose range extends outside the
\* synchronized window, a range straddling a boundary included, bypasses the
\* cache and performs exactly one uncached fetch.
C2_OutsideWindowFetches ==
    (ret.op = "async_get_events" /\ ret.synced /\ ~WithinWindow(ret)) =>
        (ret.res.route = "uncached" /\ ret.res.fetches = 1)

\* C3: a query on a synced coordinator whose range lies within the
\* synchronized window is answered from the cached timeline's overlapping
\* events, with no remote fetch.
C3_InsideWindowCacheOnly ==
    (ret.op = "async_get_events" /\ ret.synced /\ WithinWindow(ret)) =>
        /\ ret.res.route = "cache"
        /\ ret.res.fetches = 0
        /\ ret.res.outcome = "ok"
        /\ ret.res.events = overlapping(data[1], ret.start, ret.end)

\* An in-window query answered from the cache with an event in it
C3_Witness ==
    /\ ret.op = "async_get_events"
    /\ ret.synced
    /\ WithinWindow(ret)
    /\ ret.res.route = "cache"
    /\ ret.res.events # <<>>

\* C4: every mutating entry point consults validate_authorization first: no
\* call whose check fails gets as far as its remote call, and it ends with the
\* permission error, no remote call, no refresh and no notification.
C4_AuthorizationFirst ==
    /\ svc.pc # "idle" => svc.auth
    /\ (ret.op \in Entries /\ ~ret.auth) =>
          /\ ret.outcome = "not_authorised_to_event"
          /\ ret.remote_calls = 0
          /\ ret.refreshes = 0
          /\ ret.fired = <<>>
          /\ ~ret.scheduled

\* C5: after an entity update in which the resolver found no current event,
\* the entity exposes no event.
C5_NoCurrentEventExposed ==
    (ret.op = "async_update" /\ ~ret.found) => entity_event = NoneV

\* A step in which a cycle ends in failure
FailedCycleEnds ==
    /\ ret'.cycle = "failed"
    /\ \/ \E c \in Callers : InFlight(c) /\ pc'[c] # "refreshing"
       \/ svc.pc = "refreshing" /\ svc'.pc # "refreshing"

\* C6: a cycle that ends in failure leaves the cached timeline as it was, and
\* no step ever clears a cached timeline.
C6_FailedCycleKeepsTimeline ==
    [][/\ FailedCycleEnds => (data' = data /\ upcoming_timeline' = upcoming_timeline)
       /\ Truthy(data) => Truthy(data')]_vars

\* A failed cycle after which the cached timeline is still there and is not
\* what the remote calendar holds
C6_Witness ==
    /\ ret.cycle = "failed"
    /\ Truthy(data)
    /\ data[1] # <<>>
    /\ data[1] # async_get_timeline(remote)

\* C7: async_get_events raises the not-ready error exactly when no cycle has
\* succeeded yet; after a success a query on the cache returns normally, with
\* an empty result when the range holds no event.
C7_NotReadyIffNeverSynced ==
    ret.op = "async_get_events" =>
        /\ (ret.res.outcome = "not_ready") <=> ~ret.synced
        /\ (ret.synced /\ ret.res.route = "cache") => ret.res.outcome = "ok"

\* A query answered with no events from a synced timeline that holds none
C7_Witness ==
    /\ ret.op = "async_get_events"
    /\ ret.synced
    /\ data = Some(<<>>)
    /\ ret.res.outcome = "ok"
    /\ ret.res.route = "cache"
    /\ ret.res.events = <<>>

\* C8: at most one sync cycle is in flight at any time.
C8_OneCycleInFlight == Cycles <= 1

\* C9: a refresh requested while a cycle is in flight starts no further
\* cycle.
C9_RequestsJoinCycleInFlight == [][Cycles >= 1 => Cycles' <= Cycles]_vars

\* The notification kinds that match an entry point
MatchingTypes(entry) ==
    IF entry \in {"async_create_event", "async_create_calendar_event"}
    THEN {"create_calendar_event"}
    ELSE IF entry \in ModifyEntries
    THEN {"modify_calendar_event", "modify_calendar_recurrences"}
    ELSE IF entry \in RemoveEntries
    THEN {"remove_calendar_event", "remove_calendar_recurrences"}
    ELSE {"respond_calendar_event"}

\* C10: a mutation that completes successfully has fired exactly one
\* notification of the matching kind with the identifier of the affected
\* event, and one that fails has fired none.
C10_OneNotificationPerMutation ==
    ret.op \in Entries =>
        IF ret.outcome = "ok"
        THEN /\ Len(ret.fired) = 1
             /\ ret.fired[1].type \in MatchingTypes(ret.op)
             /\ ret.fired[1].event_id = ret.id
        ELSE ret.fired = <<>>

\* The mutating entry points that create, modify or delete an event
MutationEntries == Entries \ {"async_respond_calendar_event"}

\* C11: every successful create, modify or delete has started a refresh of
\* the coordinator itself or scheduled the forced entity update that starts
\* one, and while the refresh after a mutation is pending the poll loop still
\* has its next tick scheduled (or running).
C11_MutationRefreshKeepsPolling ==
    /\ (ret.op \in MutationEntries /\ ret.outcome = "ok") =>
          (ret.refreshes >= 1 \/ ret.scheduled)
    /\ svc.pc = "refreshing" => (timer \/ InFlight("poll"))

\* C12: once async_create_event has returned, a query of the coordinator
\* over the range of the added event returns normally with an event of the
\* same identifier, subject, start and end; no poll tick has completed since
\* (the last completed call is still the creation).
C12_CreateRoundTrip ==
    (ret.op = "async_create_event" /\ ret.outcome = "ok") =>
        LET e == MainEvent(ret.id)
            res == coord_async_get_events(data, now, e.start, e.end, TRUE,
                                          async_list_events(e.start, e.end))
        IN  /\ res.outcome = "ok"
            /\ \E i \in 1..Len(res.events) :
                  /\ res.events[i].object_id = e.object_id
                  /\ res.events[i].subject = e.subject
                  /\ res.events[i].start = e.start
                  /\ res.events[i].end = e.end

\* The instant today starts at (UTC)
TodayStart(t) == t - (t % OneDay)

\* C13: the event get_current_event returns is among the events overlapping
\* [today_start, today_start + 24h): it never lies entirely at or after
\* today_start + 24h.
C13_CandidatesOfToday ==
    (ret.op = "get_current_event" /\ Truthy(ret.tl) /\ ret.vevent # NoneV) =>
        /\ ret.vevent[1].start < TodayStart(ret.at) + OneDay
        /\ \E i \in 1..Len(ret.tl[1]) :
              /\ ret.tl[1][i] = ret.vevent[1]
              /\ ret.tl[1][i].start < TodayStart(ret.at) + OneDay
              /\ ret.tl[1][i].end > TodayStart(ret.at)

\* C14: the buckets of get_current_event hold the first candidate that is
\* started (not all-day, start <= now < end), the first that is all-day and
\* unfinished (all-day, now < end) and the first that is not started (not
\* all-day, now < start); no candidate satisfies two of the three; an all-day
\* event is returned from the all-day bucket only, and an event with
\* now >= end is never returned.
C14_BucketPredicates ==
    (ret.op = "get_current_event" /\ Truthy(ret.tl)) =>
        LET b == ClassifyLoop(Candidates, ret.at, EmptyBuckets)
        IN  /\ b.started_event = FirstOf(Candidates, LAMBDA e : StartedBucket(ret.at, e))
            /\ b.all_day_event = FirstOf(Candidates, LAMBDA e : AllDayBucket(ret.at, e))
            /\ b.not_started_event =
                  FirstOf(Candidates, LAMBDA e : NotStartedBucket(ret.at, e))
            /\ \A i \in 1..Len(Candidates) :
                  Cardinality({k \in {"s", "a", "n"} :
                      \/ k = "s" /\ StartedBucket(ret.at, Candidates[i])
                      \/ k = "a" /\ AllDayBucket(ret.at, Candidates[i])
                      \/ k = "n" /\ NotStartedBucket(ret.at, Candidates[i])}) <= 1
            /\ b.started_event # NoneV => ~b.started_event[1].is_all_day
            /\ b.not_started_event # NoneV => ~b.not_started_event[1].is_all_day
            /\ ret.vevent # NoneV =>
                  /\ ret.at < ret.vevent[1].end
                  /\ ret.vevent[1].is_all_day => ret.vevent = b.all_day_event

\* A resolution over an all-day event that has begun, a timed event that
\* begins at this very instant and a timed event still to begin: each is in
\* its own bucket and the one beginning now is returned as started
C14_Witness ==
    /\ ret.op = "get_current_event"
    /\ Truthy(ret.tl)
    /\ Len(Candidates) = 3
    /\ Candidates[1].is_all_day /\ Candidates[1].start < ret.at
    /\ ~Candidates[2].is_all_day /\ Candidates[2].start = ret.at
    /\ NotStartedBucket(ret.at, Candidates[3])
    /\ ret.vevent = Some(Candidates[2])

\* C15: a query of the coordinator, on either route, leaves the cached
\* timeline and the store as they were, and every query outside the window
\* performs its own uncached fetch.
C15_QueryLeavesCacheAndStore ==
    [][(ret' # ret /\ ret'.op = "async_get_events") =>
          /\ data' = data
          /\ upcoming_timeline' = upcoming_timeline
          /\ store' = store
          /\ ret'.res.route = "uncached" => ret'.res.fetches = 1]_vars

\* An uncached fetch has returned an event that the cached timeline does not
\* hold
C15_Witness ==
    /\ ret.op = "async_get_events"
    /\ ret.res.route = "uncached"
    /\ ret.res.outcome = "ok"
    /\ ret.res.events = <<FarEvent>>
    /\ Truthy(data)
    /\ \A i \in 1..Len(data[1]) : data[1][i] # FarEvent

\* A step in which a cycle ends in success
SuccessfulCycleEnds ==
    /\ ret'.cycle = "success"
    /\ \/ \E c \in Callers : InFlight(c) /\ pc'[c] # "refreshing"
       \/ svc.pc = "refreshing" /\ svc'.pc # "refreshing"

\* C16: the published timeline changes only in the step in which a cycle
\* ends successfully, and then data and _upcoming_timeline change together:
\* no other step, a query of the entity with its filtering and sorting
\* included, changes the events of the timeline readers hold.
C16_SnapshotNeverChanged ==
    [][/\ data' # data => SuccessfulCycleEnds
       /\ upcoming_timeline' = data']_vars

\* The CalendarEvents of the events of a batch that convert
ConvertibleOf(batch) ==
    LET good == SelectSeq(batch, LAMBDA e : ConvertOutcome(e) = "ok")
    IN  [i \in 1..Len(good) |-> create_calendar_event_entity(good[i])]

\* C17: when the coordinator has answered the query, async_get_events of the
\* entity returns normally, with the CalendarEvent of every event of the
\* sorted batch that converts, in the order of the batch; an event that does
\* not convert is left out and fails nothing.
C17_BadEventSkipped ==
    (ret.op = "entity_async_get_events" /\ ret.coord = "ok") =>
        /\ ret.outcome = "ok"
        /\ ret.events = ConvertibleOf(ret.batch)

\* C18: an entity update in which the event chosen by the resolver does not
\* convert completes without raising, and leaves the event of the entity
\* none or as it was.
C18_ConversionFailureRecovered ==
    [][(pc["update"] = "refreshing" /\ pc'["update"] = "idle") =>
          LET vevent == get_current_event(data', now)
          IN  (vevent # NoneV /\ ConvertOutcome(vevent[1]) # "ok") =>
                  /\ ret'.outcome = "ok"
                  /\ entity_event' \in {NoneV, entity_event}]_vars

\* An exclusion pattern of the entity matches the subject
Excluded(subject) == \E i \in 1..Len(exclude) : re_search(exclude[i], subject)

\* C19: no event whose subject an exclusion pattern matches is in a result
\* of async_get_events of the entity or in the data attribute of the entity.
C19_ExcludedNeverExposed ==
    /\ ret.op = "entity_async_get_events" =>
          \A i \in 1..Len(ret.events) : ~Excluded(ret.events[i].summary)
    /\ \A i \in 1..Len(data_attribute) : ~Excluded(data_attribute[i].summary)

\* C20: the coordinators the setup has built have pairwise distinct store
\* scopes, a sync finds in its scope only what its own coordinator wrote, and
\* every stored timeline was written by the coordinator of its scope.
C20_DistinctStoreScopes ==
    /\ setup.done =>
          \A i \in 1..Len(setup.coordinators) : \A j \in 1..Len(setup.coordinators) :
              i # j => setup.coordinators[i].scope # setup.coordinators[j].scope
    /\ ret.op = "sync.run" => \A r \in ret.found : r.coordinator = ret.coordinator
    /\ \A r \in setup.local_store : \A i \in 1..Len(setup.coordinators) :
          setup.coordinators[i].scope = r.scope => r.coordinator = i

\* The occurrences of the series in the cached timeline, and those of them
\* that are stale: removed remotely and still cached, or patched remotely
\* and cached as they were before
CachedOccurrences ==
    IF data = NoneV THEN {}
    ELSE {data[1][i].object_id : i \in {j \in 1..Len(data[1]) :
                                          data[1][j].series_master_id # NoneV}}
StaleOccurrences ==
    IF data = NoneV THEN {}
    ELSE {data[1][i].object_id : i \in {j \in 1..Len(data[1]) :
              /\ data[1][j].series_master_id # NoneV
              /\ \/ data[1][j].object_id \notin remote
                 \/ data[1][j].object_id \in patched /\ data[1][j].stamp = 0}}

C22_FailureRaisesUpdateFailed ==
    [][Cycles' < Cycles =>
          IF ret'.run \in RunErrors
          THEN /\ ret'.cycle = "failed"
               /\ ret'.raised = Some([type |-> "UpdateFailed", cause |-> ret'.run])
               /\ UNCHANGED <<data, upcoming_timeline, store>>
          ELSE ret'.cycle = "success" /\ ret'.raised = NoneV]_vars

\* A cycle has failed with each kind of exception after the first success
C22_Witness ==
    /\ ret.cycle = "failed"
    /\ ret.run = "TimeoutError"
    /\ ret.raised = Some(UpdateFailed("TimeoutError"))
    /\ data # NoneV

C24_FilterKeepsUnmatched ==
    ret.op = "_filter_events" =>
        LET has(p) == \E i \in 1..Len(ret.excl) : ret.excl[i] = p
            dropped(e) ==
                IF e.subject = "Private Lunch" THEN has("Private.*") \/ has("Lunch")
                ELSE has("Lunch") \/ has("^Lunch")
        IN  /\ ret.result = SelectSeq(ret.events, LAMBDA e : ~dropped(e))
            /\ ret.excl = <<>> => ret.result = ret.events

\* Two patterns, each dropping an event the other does not match
C24_Witness ==
    /\ ret.op = "_filter_events"
    /\ Len(ret.events) = 2
    /\ ret.events[1].subject = "Private Lunch"
    /\ ret.events[2].subject = "Lunch"
    /\ ret.excl = <<"Private.*", "^Lunch">>
    /\ ret.result = <<>>

\* C25: the events async_get_events of the entity returns are the filtered
\* events (those whose conversion was skipped left out) in ascending order of
\* sort key: the sorted batch is a permutation of the filtered events, the
\* key of a timed event is its start, the key of an all-day event is the
\* start of the local day of its start, in UTC.
C25_SortedByNormalisedStart ==
    (ret.op = "entity_async_get_events" /\ ret.outcome = "ok") =>
        LET key(e) == IF e.is_all_day
                      THEN (e.start \div OneDay) * OneDay - LocalUtcOffset
                      ELSE e.start
            ids(seq) == {seq[i].object_id : i \in 1..Len(seq)}
            converted == SelectSeq(ret.batch, LAMBDA e : ConvertOutcome(e) = "ok")
        IN  /\ Len(ret.batch) = Len(ret.filtered)
            /\ ids(ret.batch) = ids(ret.filtered)
            /\ \A i \in 1..Len(ret.batch) : ret.batch[i].start_sort = Some(key(ret.batch[i]))
            /\ \A i \in 1..Len(ret.batch) : \A j \in i..Len(ret.batch) :
                  key(ret.batch[i]) <= key(ret.batch[j])
            /\ Len(ret.events) = Len(converted)
            /\ \A i \in 1..Len(ret.events) : ret.events[i].uid = converted[i].object_id

\* An all-day event queried after a timed event of its midnight is returned
\* before it
C25_Witness ==
    /\ ret.op = "entity_async_get_events"
    /\ ret.outcome = "ok"
    /\ Len(ret.filtered) = 2
    /\ ~ret.filtered[1].is_all_day
    /\ ret.filtered[1].start = 0
    /\ ret.filtered[2].is_all_day
    /\ Len(ret.events) = 2
    /\ ret.events[1].uid = ret.filtered[2].object_id
    /\ ret.events[1].all_day

\* C26: range selection over the cached timeline is half-open: the query
\* for [a, b) returns exactly the events with start < b and end > a, in the
\* timeline's order, the current event is one of those of [now, now + 1 day),
\* and the data attribute holds exactly those of its range; an event ending
\* at a or starting at b is not selected.
C26_HalfOpenSelection ==
    [][LET Selected(e, a, b) == e.start < b /\ e.end > a
       IN  /\ (ret' # ret /\ ret'.op = "async_get_events" /\ ret'.res.outcome = "ok"
                           /\ ret'.res.route = "cache") =>
                  /\ ret'.res.events =
                        SelectSeq(data[1], LAMBDA e : Selected(e, ret'.start, ret'.end))
                  /\ \A i \in 1..Len(ret'.res.events) :
                        /\ ret'.res.events[i].end # ret'.start
                        /\ ret'.res.events[i].start # ret'.end
           /\ (ret' # ret /\ ret'.op = "get_current_event" /\ ret'.vevent # NoneV) =>
                  Selected(ret'.vevent[1], now, now + OneDay)
           /\ (pc["update"] = "idle" /\ pc'["update"] = "refreshing" /\ data # NoneV) =>
                  LET sel == SelectSeq(data[1], LAMBDA e :
                                 Selected(e, now + StartOffset, now + EndOffset))
                  IN  /\ Len(data_attribute') = Len(sel)
                      /\ \A i \in 1..Len(sel) : data_attribute'[i].uid = sel[i].object_id]_vars

\* A query has left out an event that ends where its range starts and an
\* event that starts where its range ends, and returned one between them
C26_Witness ==
    /\ ret.op = "async_get_events"
    /\ ret.res.outcome = "ok"
    /\ ret.res.route = "cache"
    /\ Len(data[1]) = 3
    /\ data[1][1].start < data[1][1].end
    /\ data[1][1].end = ret.start
    /\ data[1][2].start = ret.start
    /\ data[1][2].end = ret.end
    /\ data[1][3].start = ret.end
    /\ ret.res.events = <<data[1][2]>>

\* The tracked entities of the configuration, and those of them whose
\* calendar initialises
Tracked == {k \in 1..Len(setup.entities) : setup.entities[k].track}
TrackedInitialised == {k \in Tracked : setup.entities[k].init_ok}

\* C27 as stated: with a token holding the minimum read permission the
\* setup adds exactly one calendar entity for every tracked entity of the
\* configuration.
C27_OneEntityPerTracked ==
    setup.platform_done =>
        /\ Len(setup.added) = Cardinality(Tracked)
        /\ {setup.added[i].entity : i \in 1..Len(setup.added)} = Tracked

\* C27, amended: with a token holding the minimum read permission, with or
\* without write permission and enable_update, the setup adds exactly one
\* calendar entity for every tracked entity whose calendar initialises
\* without HTTPError, and none for the others.
C27_OneEntityPerInitialisedTracked ==
    setup.platform_done =>
        /\ Len(setup.added) = Cardinality(TrackedInitialised)
        /\ {setup.added[i].entity : i \in 1..Len(setup.added)} = TrackedInitialised

\* Two tracked entities have been added under a read-only token with
\* enable_update set
C27_Witness ==
    /\ setup.platform_done
    /\ setup.token = "Calendars.Read"
    /\ setup.enable_update
    /\ ~update_supported
    /\ Cardinality(Tracked) = 2
    /\ Len(setup.added) = 2

\* C28: the two lists _async_setup_coordinators returns have the same length
\* and keys[i] describes the entity coordinators[i] synchronises, whatever
\* the outcome of the calendars' initialisation; untracked entities are in
\* neither list.
C28_ListsIndexAligned ==
    setup.done =>
        /\ Len(setup.coordinators) = Len(setup.keys)
        /\ \A i \in 1..Len(setup.coordinators) :
              i <= Len(setup.keys) => setup.keys[i].entity = setup.coordinators[i].entity
        /\ \A i \in 1..Len(setup.keys) : setup.keys[i].entity \in Tracked
        /\ \A i \in 1..Len(setup.coordinators) : setup.coordinators[i].entity \in Tracked

\* C29: when an update of the entity ends with a successful refresh, the
\* data attribute is built from the timeline that refresh published, the one
\* the current event is resolved on (for the range of some instant up to now).
C29_AttributeOfPublishedTimeline ==
    [][(pc["update"] = "refreshing" /\ pc'["update"] = "idle" /\ ret'.cycle = "success") =>
          \E t \in 0..now :
              data_attribute' = build_extra_attributes(data', data_attribute,
                                                       t + StartOffset, t + EndOffset)]_vars

\* C30: on an entity that is not editable every mutating call is refused
\* before any remote call, refresh or notification, with the
\* calendar-not-editable error when the authorization check passes.
C30_NotEditableRefused ==
    ~update_supported =>
        /\ svc = IdleSvc
        /\ ret.op \in Entries =>
              /\ ret.outcome \in {"calendar_not_editable", "not_authorised_to_event"}
              /\ ret.auth => ret.outcome = "calendar_not_editable"
              /\ ret.remote_calls = 0
              /\ ret.refreshes = 0
              /\ ret.fired = <<>>

\* The services the platform registers on the entity
RegisteredServices ==
    {"async_create_calendar_event", "async_modify_calendar_event",
     "async_remove_calendar_event", "async_respond_calendar_event"}

\* C31: on a group calendar every registered mutating service (create, modify,
\* remove, respond) is refused before any remote call, refresh or
\* notification, with the group-calendar validation error when the permission
\* checks pass.
C31_GroupCalendarRefused ==
    group_calendar =>
        /\ svc.pc # "idle" => svc.entry \notin RegisteredServices
        /\ ret.op \in RegisteredServices =>
              /\ ret.outcome \in {"ms365_group_calendar_error", "calendar_not_editable",
                                  "not_authorised_to_event"}
              /\ (ret.auth /\ update_supported) =>
                    ret.outcome = "ms365_group_calendar_error"
              /\ ret.remote_calls = 0
              /\ ret.refreshes = 0
              /\ ret.fired = <<>>

====
